---------------------------- MODULE Spec2Model ----------------------------
(***************************************************************************)
(* A model of the bitcoin-rpc-types crate: the schema types of types.rs    *)
(* (BtcArgument, BtcResult, BtcMethod, ApiDefinition, SchemaError) with    *)
(* their serde decoding and the loader ApiDefinition::from_file, and the   *)
(* untagged union HashOrHeight of hash_or_height.rs.                       *)
(*                                                                         *)
(* JSON values are records [t, v]: t is the syntactic category and v the   *)
(* payload.  Text whose characters no code inspects is a TLA+ string; the  *)
(* hex text of a block hash is a sequence of one-character strings and a   *)
(* JSON number is a sign, a sequence of decimal digits and a fraction      *)
(* flag, because the codec inspects those.                                 *)
(***************************************************************************)
EXTENDS Integers, Sequences, FiniteSets, TLC

VARIABLES
    file,      \* the state of the file at the path handed to from_file
    api,       \* what the caller holds: nothing yet, Ok(ApiDefinition) or Err(SchemaError)
    origin,    \* how the definition at hand was made: "none", "new" or "from_file"
    inserted,  \* the keys inserted by hand into the definition since it was made
    lookup,    \* the last get_method call: its name and what it returned
    before,    \* the rpcs mapping as it was when get_method was last entered
    norm,      \* a result tree carrying a stored `required` flag (normalization pass)
    fresh,     \* norm as it was constructed, before any normalization pass
    once,      \* norm as it was after the first normalization pass
    passes,    \* number of normalization passes applied to norm
    hoh,       \* the HashOrHeight value at hand
    made,      \* the conversion that made hoh and its argument, when one did
    wire,      \* a JSON value on the wire for HashOrHeight
    sent,      \* the HashOrHeight value that wire encodes, when wire came from serialize
    dec,       \* the outcome of the last HashOrHeight decode
    ret,       \* the return values of the last predicates/projections call
    tree,      \* a BtcResult made without the loader
    built,     \* how tree was made: "none", "new", "literal", "default", "from_str", "error"
    given,     \* the `optional` values handed to the constructions that made tree, as a tree
    parsed     \* the JSON value handed to the direct decode that made tree

schemaVars == <<file, api, origin, inserted, lookup, before>>

normVars == <<norm, fresh, once, passes>>

hohVars == <<hoh, made, wire, sent, dec, ret>>

treeVars == <<tree, built, given, parsed>>

vars == <<schemaVars, normVars, hohVars, treeVars>>

---------------------------------------------------------------------------
(* JSON values *)

JNull == [t |-> "null", v |-> "null"]

JBool(b) == [t |-> "bool", v |-> b]

JStr(s) == [t |-> "string", v |-> s]

JArr(s) == [t |-> "array", v |-> s]

(* an object is the function from its keys to their values, each key once *)
JObj(f) == [t |-> "object", v |-> f]

JNum(neg, digits, frac) == [t |-> "number", v |-> [neg |-> neg, digits |-> digits, frac |-> frac]]

(* Outcome of a decoding step: a value, or a serde_json::Error *)
Ok(x) == [ok |-> TRUE, val |-> x]

Err == [ok |-> FALSE, val |-> "error"]

---------------------------------------------------------------------------
(* serde decoding of the primitive field types *)

DecodeString(j) == IF j.t = "string" THEN Ok(j.v) ELSE Err

DecodeBool(j) == IF j.t = "bool" THEN Ok(j.v) ELSE Err

DecodeVecString(j) ==
    IF j.t = "array" /\ \A i \in 1..Len(j.v) : j.v[i].t = "string"
    THEN Ok([i \in 1..Len(j.v) |-> j.v[i].v])
    ELSE Err

None == [some |-> FALSE, v |-> "none"]

Some(x) == [some |-> TRUE, v |-> x]

DecodeOptVecString(j) ==
    IF j.t = "null" THEN Ok(None)
    ELSE LET d == DecodeVecString(j) IN IF d.ok THEN Ok(Some(d.val)) ELSE Err

(* A derived struct decodes from a JSON object (fields by name, names the  *)
(* struct does not declare are skipped) or from a JSON array (fields by    *)
(* position in declaration order, no more elements than fields).           *)
Names(fields) == {fields[i] : i \in 1..Len(fields)}

Index(fields, name) == CHOOSE i \in 1..Len(fields) : fields[i] = name

StructShape_deny_unknown(j, fields) ==
    \/ j.t = "object" /\ DOMAIN j.v \subseteq Names(fields)
    \/ j.t = "array" /\ Len(j.v) <= Len(fields)

StructShape(j, fields) ==
    \/ j.t = "object"
    \/ j.t = "array" /\ Len(j.v) <= Len(fields)

Lookup(j, fields, name) ==
    IF j.t = "object"
    THEN IF name \in DOMAIN j.v
         THEN [present |-> TRUE, v |-> j.v[name]]
         ELSE [present |-> FALSE, v |-> JNull]
    ELSE IF Index(fields, name) <= Len(j.v)
         THEN [present |-> TRUE, v |-> j.v[Index(fields, name)]]
         ELSE [present |-> FALSE, v |-> JNull]

(* a field without #[serde(default)]: absent is an error *)
Req(l, d) == IF l.present THEN d ELSE Err

Dflt_no_default(l, d, def) == IF l.present THEN d ELSE Err

(* a field with #[serde(default)]: absent takes Default::default() *)
Dflt(l, d, def) == IF l.present THEN d ELSE Ok(def)

---------------------------------------------------------------------------
(* types.rs: BtcArgument *)

BtcArgumentFields ==
    <<"names", "description", "oneline_description", "also_positional",
      "type_str", "required", "hidden", "type">>

DecodeArgument(j) ==
    IF ~StructShape(j, BtcArgumentFields) THEN Err
    ELSE LET lnames  == Lookup(j, BtcArgumentFields, "names")
             ldesc   == Lookup(j, BtcArgumentFields, "description")
             lone    == Lookup(j, BtcArgumentFields, "oneline_description")
             lalso   == Lookup(j, BtcArgumentFields, "also_positional")
             ltstr   == Lookup(j, BtcArgumentFields, "type_str")
             lreq    == Lookup(j, BtcArgumentFields, "required")
             lhid    == Lookup(j, BtcArgumentFields, "hidden")
             ltype   == Lookup(j, BtcArgumentFields, "type")
             names   == Req(lnames, DecodeVecString(lnames.v))
             desc    == Req(ldesc, DecodeString(ldesc.v))
             one     == Dflt(lone, DecodeString(lone.v), "")
             also    == Dflt(lalso, DecodeBool(lalso.v), FALSE)
             tstr    == Dflt(ltstr, DecodeOptVecString(ltstr.v), None)
             req     == Req(lreq, DecodeBool(lreq.v))
             hid     == Dflt(lhid, DecodeBool(lhid.v), FALSE)
             type    == Req(ltype, DecodeString(ltype.v))
         IN IF /\ names.ok /\ desc.ok /\ one.ok /\ also.ok
               /\ tstr.ok /\ req.ok /\ hid.ok /\ type.ok
            THEN Ok([names |-> names.val, description |-> desc.val,
                     oneline_description |-> one.val, also_positional |-> also.val,
                     type_str |-> tstr.val, required |-> req.val,
                     hidden |-> hid.val, type_ |-> type.val])
            ELSE Err

---------------------------------------------------------------------------
(* types.rs: BtcResult *)

BtcResult_default ==
    [type_ |-> "", optional |-> FALSE, description |-> "", skip_type_check |-> FALSE,
     key_name |-> "", condition |-> "", inner |-> <<>>]

BtcResult_new_swapped(type_, optional, description, skip_type_check, key_name, condition, inner) ==
    [type_ |-> type_, optional |-> skip_type_check, description |-> description,
     skip_type_check |-> optional, key_name |-> key_name,
     condition |-> condition, inner |-> inner]

BtcResult_new(type_, optional, description, skip_type_check, key_name, condition, inner) ==
    [type_ |-> type_, optional |-> optional, description |-> description,
     skip_type_check |-> skip_type_check, key_name |-> key_name,
     condition |-> condition, inner |-> inner]

required_negated(self) == self.optional

required(self) == ~self.optional

BtcResultFields ==
    <<"type", "optional", "description", "skip_type_check", "key_name", "condition", "inner">>

RECURSIVE DecodeResult(_)
DecodeResult(j) ==
    IF ~StructShape(j, BtcResultFields) THEN Err
    ELSE LET ltype == Lookup(j, BtcResultFields, "type")
             lopt  == Lookup(j, BtcResultFields, "optional")
             ldesc == Lookup(j, BtcResultFields, "description")
             lskip == Lookup(j, BtcResultFields, "skip_type_check")
             lkey  == Lookup(j, BtcResultFields, "key_name")
             lcond == Lookup(j, BtcResultFields, "condition")
             linn  == Lookup(j, BtcResultFields, "inner")
             type  == Req(ltype, DecodeString(ltype.v))
             opt   == Dflt(lopt, DecodeBool(lopt.v), FALSE)
             desc  == Req(ldesc, DecodeString(ldesc.v))
             skip  == Dflt(lskip, DecodeBool(lskip.v), FALSE)
             key   == Dflt(lkey, DecodeString(lkey.v), "")
             cond  == Dflt(lcond, DecodeString(lcond.v), "")
             kids  == IF linn.v.t = "array"
                      THEN [i \in 1..Len(linn.v.v) |-> DecodeResult(linn.v.v[i])]
                      ELSE <<>>
             inn   == IF ~linn.present THEN Ok(<<>>)
                      ELSE IF linn.v.t = "array" /\ \A i \in 1..Len(kids) : kids[i].ok
                           THEN Ok([i \in 1..Len(kids) |-> kids[i].val])
                           ELSE Err
         IN IF /\ type.ok /\ opt.ok /\ desc.ok /\ skip.ok
               /\ key.ok /\ cond.ok /\ inn.ok
            THEN Ok(BtcResult_new(type.val, opt.val, desc.val, skip.val,
                                  key.val, cond.val, inn.val))
            ELSE Err

---------------------------------------------------------------------------
(* types.rs: BtcMethod *)

DecodeVecArgument(j) ==
    IF j.t # "array" THEN Err
    ELSE LET ds == [i \in 1..Len(j.v) |-> DecodeArgument(j.v[i])]
         IN IF \A i \in 1..Len(j.v) : ds[i].ok
            THEN Ok([i \in 1..Len(j.v) |-> ds[i].val])
            ELSE Err

DecodeVecResult(j) ==
    IF j.t # "array" THEN Err
    ELSE LET ds == [i \in 1..Len(j.v) |-> DecodeResult(j.v[i])]
         IN IF \A i \in 1..Len(j.v) : ds[i].ok
            THEN Ok([i \in 1..Len(j.v) |-> ds[i].val])
            ELSE Err

BtcMethodFields ==
    <<"name", "description", "examples", "argument_names", "arguments", "results">>

DecodeMethod(j) ==
    IF ~StructShape(j, BtcMethodFields) THEN Err
    ELSE LET lname == Lookup(j, BtcMethodFields, "name")
             ldesc == Lookup(j, BtcMethodFields, "description")
             lex   == Lookup(j, BtcMethodFields, "examples")
             lan   == Lookup(j, BtcMethodFields, "argument_names")
             largs == Lookup(j, BtcMethodFields, "arguments")
             lres  == Lookup(j, BtcMethodFields, "results")
             name  == Req(lname, DecodeString(lname.v))
             desc  == Req(ldesc, DecodeString(ldesc.v))
             ex    == Dflt(lex, DecodeString(lex.v), "")
             an    == Dflt(lan, DecodeVecString(lan.v), <<>>)
             args  == Req(largs, DecodeVecArgument(largs.v))
             res   == Req(lres, DecodeVecResult(lres.v))
         IN IF name.ok /\ desc.ok /\ ex.ok /\ an.ok /\ args.ok /\ res.ok
            THEN Ok([name |-> name.val, description |-> desc.val,
                     examples |-> ex.val, argument_names |-> an.val,
                     arguments |-> args.val, results |-> res.val])
            ELSE Err

---------------------------------------------------------------------------
(* types.rs: ApiDefinition and SchemaError *)

(* BTreeMap<String, BtcMethod>: a JSON object, every value a method *)
DecodeRpcs(j) ==
    IF j.t # "object" THEN Err
    ELSE LET ds == [k \in DOMAIN j.v |-> DecodeMethod(j.v[k])]
         IN IF \A k \in DOMAIN j.v : ds[k].ok
            THEN Ok([k \in DOMAIN j.v |-> ds[k].val])
            ELSE Err

ApiDefinitionFields == <<"rpcs">>

DecodeApiDefinition(j) ==
    IF ~StructShape(j, ApiDefinitionFields) THEN Err
    ELSE LET lrpcs == Lookup(j, ApiDefinitionFields, "rpcs")
             rpcs  == Req(lrpcs, DecodeRpcs(lrpcs.v))
         IN IF rpcs.ok THEN Ok([rpcs |-> rpcs.val]) ELSE Err

(* serde_json::from_str: the text must be one well-formed JSON value, and  *)
(* that value must decode as an ApiDefinition                              *)
from_str(content) ==
    IF ~content.syntax THEN Err ELSE DecodeApiDefinition(content.value)

(* std::fs::read_to_string: the path must name a readable file holding     *)
(* UTF-8 text                                                              *)
read_to_string(f) ==
    IF f.state = "text" THEN Ok([syntax |-> f.syntax, value |-> f.value]) ELSE Err

(* Result<ApiDefinition>: Ok(def) or Err(SchemaError) *)
ResultOk(def) == [kind |-> "Ok", def |-> def, err |-> "none"]

ResultErr(e) == [kind |-> "Err", def |-> "none", err |-> e]

NotCalled == [kind |-> "none", def |-> "none", err |-> "none"]

new == [rpcs |-> <<>>]

from_file_best_effort(f) ==
    LET content == read_to_string(f)
    IN IF ~content.ok THEN ResultErr("Io")
       ELSE LET api_def == from_str(content.val)
            IN IF ~api_def.ok THEN ResultOk(new)
               ELSE ResultOk(api_def.val)

from_file(f) ==
    LET content == read_to_string(f)
    IN IF ~content.ok THEN ResultErr("Io")
       ELSE LET api_def == from_str(content.val)
            IN IF ~api_def.ok THEN ResultErr("JsonParse")
               ELSE ResultOk(api_def.val)

get_method_by_name_field(self, name) ==
    IF \E k \in DOMAIN self.rpcs : self.rpcs[k].name = name
    THEN Some(self.rpcs[CHOOSE k \in DOMAIN self.rpcs : self.rpcs[k].name = name])
    ELSE None

get_method(self, name) ==
    IF name \in DOMAIN self.rpcs THEN Some(self.rpcs[name]) ELSE None

---------------------------------------------------------------------------
(* The documents from_file is run on.  A field set to Absent is left out   *)
(* of the object.                                                          *)

MaxDepth == 3

Absent == [t |-> "absent", v |-> "absent"]

Tri == {Absent, JBool(TRUE), JBool(FALSE)}

(* the object holding exactly the fields of f that are not Absent *)
Obj(f) == JObj([k \in {x \in DOMAIN f : f[x] # Absent} |-> f[k]])

ResultNode(opt, req, kids) ==
    Obj([type |-> JStr("string"), optional |-> opt, description |-> JStr("d"),
         required |-> req, inner |-> IF kids = <<>> THEN Absent ELSE JArr(kids)])

Leaves == {ResultNode(o, r, <<>>) : o \in Tri, r \in Tri}

RECURSIVE Chains(_)
Chains(d) ==
    IF d <= 1 THEN Leaves
    ELSE Leaves \cup {ResultNode(o, r, <<t>>) : o \in Tri, r \in Tri, t \in Chains(d - 1)}

Wide == {ResultNode(o, r, <<t, u>>) : o \in Tri, r \in Tri, t \in Leaves, u \in Leaves}

ResultFields ==
    [type |-> JStr("object"), optional |-> JBool(TRUE), description |-> JStr("main"),
     skip_type_check |-> JBool(TRUE), key_name |-> JStr("main_key"),
     condition |-> JStr("main_condition"),
     inner |-> JArr(<<ResultNode(JBool(FALSE), Absent, <<>>)>>)]

(* result objects holding any subset of the seven fields *)
PartialResults ==
    {Obj([k \in DOMAIN ResultFields |-> IF k \in S THEN ResultFields[k] ELSE Absent]) :
        S \in SUBSET DOMAIN ResultFields}

(* result objects with one field of the wrong JSON type, or an odd `required` *)
MistypedResults ==
    {Obj([ResultFields EXCEPT ![k] = x]) : k \in DOMAIN ResultFields, x \in {JNull, JObj(<<>>)}}
    \cup {Obj([k \in DOMAIN ResultFields \cup {"required"} |->
                 IF k = "required" THEN x ELSE ResultFields[k]]) :
             x \in {JNull, JStr("yes"), JArr(<<>>), JObj(<<>>)}}

(* results written as arrays: the fields by position *)
ArrayResults ==
    {JArr([i \in 1..n |-> IF i <= 7 THEN ResultFields[BtcResultFields[i]] ELSE JNull]) : n \in 0..8}

(* the same, one and two levels down *)
NestedResults ==
    LET under == {ResultNode(o, Absent, <<t>>) :
                     o \in Tri, t \in PartialResults \cup MistypedResults \cup ArrayResults}
    IN under \cup {ResultNode(JBool(TRUE), Absent, <<t>>) : t \in under}

ResultDocs ==
    Chains(MaxDepth) \cup Wide \cup PartialResults \cup MistypedResults
        \cup ArrayResults \cup NestedResults

ArgumentFields ==
    [names |-> JArr(<<JStr("blockhash")>>), description |-> JStr("The block hash"),
     oneline_description |-> JStr("one"), also_positional |-> JBool(TRUE),
     type_str |-> JArr(<<JStr("hex")>>), required |-> JBool(TRUE),
     hidden |-> JBool(TRUE), type |-> JStr("string")]

ArgumentDocs ==
    {Obj([k \in DOMAIN ArgumentFields |-> IF k \in S THEN ArgumentFields[k] ELSE Absent]) :
        S \in SUBSET DOMAIN ArgumentFields}
    \cup {Obj([ArgumentFields EXCEPT !.type_str = x]) : x \in {JNull, JStr("hex"), JArr(<<JNull>>)}}

MethodFields(name) ==
    [name |-> JStr(name), description |-> JStr("Get block information"),
     examples |-> JStr("ex"), argument_names |-> JArr(<<JStr("blockhash")>>),
     arguments |-> JArr(<<Obj(ArgumentFields)>>),
     results |-> JArr(<<ResultNode(JBool(TRUE), Absent, <<ResultNode(JBool(FALSE), Absent, <<>>)>>)>>)]

MethodDocs ==
    LET F == MethodFields("getblock")
    IN {Obj([F EXCEPT !.results = JArr(<<t>>)]) : t \in ResultDocs}
       \cup {Obj([F EXCEPT !.results = JArr(<<t, u>>)]) : t \in Leaves, u \in Leaves}
       \cup {Obj([F EXCEPT !.arguments = JArr(<<a>>)]) : a \in ArgumentDocs}
       \cup {Obj([k \in DOMAIN F |-> IF k \in S THEN F[k] ELSE Absent]) : S \in SUBSET DOMAIN F}
       \cup {Obj([F EXCEPT ![k] = x]) : k \in DOMAIN F, x \in {JNull, JObj(<<>>)}}
       \cup {JArr([i \in 1..n |-> IF i <= 6 THEN F[BtcMethodFields[i]] ELSE JNull]) : n \in 0..7}

(* the method of test_api_definition_from_file_success_path *)
SimpleMethod(name) ==
    Obj([name |-> JStr(name), description |-> JStr("A simple method"),
         examples |-> JStr(""), argument_names |-> JArr(<<>>),
         arguments |-> JArr(<<>>), results |-> JArr(<<>>)])

Rpcs(f) == JObj([rpcs |-> JObj(f)])

MethodNames == {"simple_method", "getblock", "gettransaction"}

(* documents of the expected shape, small: zero, one or two methods *)
SmallDocs ==
    {Rpcs(<<>>)}
    \cup {Rpcs([k \in {n} |-> SimpleMethod(m)]) : n \in MethodNames, m \in MethodNames}
    \cup {Rpcs([k \in {n} |-> Obj(MethodFields(n))]) : n \in MethodNames}
    \cup {Rpcs([k \in {n, m} |-> SimpleMethod(k)]) : n \in MethodNames, m \in MethodNames}

(* documents that are well-formed JSON but not of the expected shape at the top *)
OddDocs ==
    LET r == [k \in {"getblock"} |-> SimpleMethod(k)]
    IN {JNull, JStr("rpcs"), JObj(<<>>), JObj([methods |-> JObj(r)]),
        JObj([rpcs |-> JNull]), JObj([rpcs |-> JArr(<<>>)]),
        JObj([rpcs |-> JObj(r), version |-> JStr("v1")]),
        JArr(<<>>), JArr(<<JObj(r)>>), JArr(<<JObj(r), JNull>>),
        Rpcs([k \in {"getblock"} |-> JNull])}

LoadDocs == {Rpcs([k \in {"getblock"} |-> m]) : m \in MethodDocs} \cup SmallDocs \cup OddDocs

NoFile == [state |-> "absent", syntax |-> FALSE, value |-> JNull]

Text(j) == [state |-> "text", syntax |-> TRUE, value |-> j]

(* a missing file, one the process may not read, one that is not UTF-8,    *)
(* and one whose text is not JSON ("invalid json content")                 *)
NoText ==
    {[state |-> st, syntax |-> FALSE, value |-> JNull] : st \in {"absent", "denied", "not_utf8"}}
    \cup {[state |-> "text", syntax |-> FALSE, value |-> JNull]}

LoadFiles == NoText \cup {Text(j) : j \in LoadDocs}

SmallFiles == NoText \cup {Text(j) : j \in SmallDocs}

---------------------------------------------------------------------------
(* Operations on the schema side *)

MaxInserts == 1

NoLookup == [called |-> FALSE, name |-> "", ret |-> None]

SchemaIdle ==
    /\ api = NotCalled /\ origin = "none" /\ inserted = {}
    /\ lookup = NoLookup /\ before = <<>>

NormIdle == norm = <<>> /\ fresh = <<>> /\ once = <<>> /\ passes = 0

HohIdle ==
    /\ hoh = None /\ made = None /\ wire = None /\ sent = None /\ dec = None /\ ret = None

NoArgs == [optional |-> FALSE, inner |-> <<>>]

TreeIdle == tree = BtcResult_default /\ built = "none" /\ given = NoArgs /\ parsed = JNull

(* ApiDefinition::new() *)
New ==
    /\ api' = ResultOk(new)
    /\ origin' = "new"
    /\ inserted' = {}
    /\ lookup' = NoLookup
    /\ before' = <<>>
    /\ UNCHANGED <<file, normVars, hohVars, treeVars>>

(* ApiDefinition::from_file(path) *)
FromFile ==
    /\ api' = from_file(file)
    /\ origin' = "from_file"
    /\ inserted' = {}
    /\ lookup' = NoLookup
    /\ before' = <<>>
    /\ UNCHANGED <<file, normVars, hohVars, treeVars>>

(* the method literal of test_api_definition_get_method *)
HandMethod(name) ==
    [name |-> name, description |-> "Get block information", examples |-> "",
     argument_names |-> <<"blockhash">>, arguments |-> <<>>, results |-> <<>>]

insert(rpcs, key, value) ==
    [k \in DOMAIN rpcs \cup {key} |-> IF k = key THEN value ELSE rpcs[k]]

(* api_def.rpcs.insert(key, method) on a definition the caller holds *)
Insert ==
    /\ api.kind = "Ok"
    /\ Cardinality(inserted) < MaxInserts
    /\ \E key \in MethodNames, name \in MethodNames :
          /\ api' = ResultOk([rpcs |-> insert(api.def.rpcs, key, HandMethod(name))])
          /\ inserted' = inserted \cup {key}
    /\ lookup' = NoLookup
    /\ before' = <<>>
    /\ UNCHANGED <<file, origin, normVars, hohVars, treeVars>>

LookupNames == MethodNames \cup {"nonexistent"}

(* api_def.get_method(name) *)
GetMethod ==
    /\ api.kind = "Ok"
    /\ \E name \in LookupNames :
          lookup' = [called |-> TRUE, name |-> name, ret |-> get_method(api.def, name)]
    /\ before' = api.def.rpcs
    /\ UNCHANGED <<file, api, origin, inserted, normVars, hohVars, treeVars>>

InitLoad == file \in LoadFiles /\ SchemaIdle /\ NormIdle /\ HohIdle /\ TreeIdle

NextLoad == FromFile

SpecLoad == InitLoad /\ [][NextLoad]_vars

Init == file \in SmallFiles /\ SchemaIdle /\ NormIdle /\ HohIdle /\ TreeIdle

Next == New \/ FromFile \/ Insert \/ GetMethod

Spec == Init /\ [][Next]_vars

---------------------------------------------------------------------------
(* hash_or_height.rs: HashOrHeight.  A BlockHash is its 32 bytes in        *)
(* internal order; a u32 is its two 16-bit halves, so that the whole range *)
(* [0, 2^32) is within reach of the arithmetic.                            *)

HashLen == 32

Hash(hash) == [variant |-> "Hash", hash |-> hash]

Height(height) == [variant |-> "Height", height |-> height]

is_hash(self) == self.variant = "Hash"

is_height_pasted(self) == self.variant = "Hash"

is_height(self) == self.variant = "Height"

as_hash(self) == IF self.variant = "Hash" THEN Some(self.hash) ELSE None

as_height_or_zero(self) ==
    IF self.variant = "Height" THEN Some(self.height) ELSE Some([hi |-> 0, lo |-> 0])

as_height(self) == IF self.variant = "Height" THEN Some(self.height) ELSE None

From_BlockHash(hash) == Hash(hash)

From_u32_narrowed(height) == Height([hi |-> 0, lo |-> height.lo])

From_u32(height) == Height(height)

(* BlockHash as text: 64 lower-case hex digits, the bytes in reverse order *)
HexDigits == <<"0", "1", "2", "3", "4", "5", "6", "7", "8", "9", "a", "b", "c", "d", "e", "f">>

UpperDigits == <<"0", "1", "2", "3", "4", "5", "6", "7", "8", "9", "A", "B", "C", "D", "E", "F">>

IsHexDigit(c) == \E i \in 1..16 : HexDigits[i] = c \/ UpperDigits[i] = c

HexValue(c) == (CHOOSE i \in 1..16 : HexDigits[i] = c \/ UpperDigits[i] = c) - 1

BlockHash_to_hex_forward(hash) ==
    [i \in 1..2 * HashLen |->
        LET b == hash[((i + 1) \div 2)]
        IN IF i % 2 = 1 THEN HexDigits[(b \div 16) + 1] ELSE HexDigits[(b % 16) + 1]]

BlockHash_to_hex(hash) ==
    [i \in 1..2 * HashLen |->
        LET b == hash[HashLen + 1 - ((i + 1) \div 2)]
        IN IF i % 2 = 1 THEN HexDigits[(b \div 16) + 1] ELSE HexDigits[(b % 16) + 1]]

BlockHash_from_hex(text) ==
    IF Len(text) = 2 * HashLen /\ \A i \in 1..Len(text) : IsHexDigit(text[i])
    THEN Ok([k \in 1..HashLen |->
                LET j == HashLen + 1 - k
                IN (16 * HexValue(text[(2 * j) - 1])) + HexValue(text[2 * j])])
    ELSE Err

(* u32 as text: its decimal digits, most significant first *)
RECURSIVE u32_to_decimal(_)
u32_to_decimal(n) ==
    IF n.hi = 0 /\ n.lo < 10 THEN <<n.lo>>
    ELSE LET t == ((n.hi % 10) * 65536) + n.lo
         IN Append(u32_to_decimal([hi |-> n.hi \div 10, lo |-> t \div 10]), t % 10)

(* the digits d[1..k] as a u32, or an error once the value passes u32::MAX *)
RECURSIVE u32_from_decimal(_, _)
u32_from_decimal(d, k) ==
    IF k = 0 THEN Ok([hi |-> 0, lo |-> 0])
    ELSE LET acc == u32_from_decimal(d, k - 1)
         IN IF ~acc.ok THEN Err
            ELSE LET lo == (acc.val.lo * 10) + d[k]
                     hi == (acc.val.hi * 10) + (lo \div 65536)
                 IN IF hi > 65535 THEN Err
                    ELSE Ok([hi |-> hi, lo |-> lo % 65536])

(* Serialize for the untagged enum: the payload alone, no tag *)
serialize(self) ==
    IF self.variant = "Hash"
    THEN JStr(BlockHash_to_hex(self.hash))
    ELSE JNum(FALSE, u32_to_decimal(self.height), FALSE)

DecodeBlockHash(j) ==
    IF j.t = "string" THEN BlockHash_from_hex(j.v) ELSE Err

DecodeU32(j) ==
    IF j.t = "number" /\ ~j.v.neg /\ ~j.v.frac
    THEN u32_from_decimal(j.v.digits, Len(j.v.digits))
    ELSE Err

(* Deserialize for the untagged enum: the variants are tried in the order  *)
(* they are declared, and the first that decodes wins                      *)
deserialize(j) ==
    LET h == DecodeBlockHash(j)
    IN IF h.ok THEN Ok(Hash(h.val))
       ELSE LET n == DecodeU32(j)
            IN IF n.ok THEN Ok(Height(n.val)) ELSE Err

---------------------------------------------------------------------------
(* The values HashOrHeight is exercised on *)

(* the hash of the tests, 000000000019d6...e26f, in internal byte order *)
GenesisHash ==
    <<111, 226, 140, 10, 182, 241, 179, 114, 193, 166, 162, 70, 174, 99, 247, 79, 147, 30, 131, 101, 225, 90, 8, 156, 104, 214, 25, 0, 0, 0, 0, 0>>

SampleBytes == {0, 111, 255}

Hashes ==
    {GenesisHash}
    \cup {[i \in 1..HashLen |-> IF i = 1 THEN a ELSE IF i = HashLen THEN b ELSE c] :
             a \in SampleBytes, b \in SampleBytes, c \in {165}}

Heights == {[hi |-> h, lo |-> l] : h \in {0, 1, 65535}, l \in {0, 9, 12345, 65535}}

Run(c, n) == [i \in 1..n |-> c]

(* JSON values that no serialize produced *)
ForeignWires ==
    {JNull, JBool(TRUE), JArr(<<>>), JObj([Height |-> JNum(FALSE, <<1>>, FALSE)]),
     JStr(<<>>), JStr(<<"6", "f">>), JStr(Run("g", 2 * HashLen)),
     JStr(Run("F", 2 * HashLen)), JStr(Run("0", (2 * HashLen) + 2)),
     JNum(FALSE, <<4, 2, 9, 4, 9, 6, 7, 2, 9, 6>>, FALSE),
     JNum(FALSE, <<4, 2, 9, 4, 9, 6, 7, 2, 9, 5>>, FALSE),
     JNum(FALSE, <<9, 9, 9, 9, 9, 9, 9, 9, 9, 9, 9>>, FALSE),
     JNum(TRUE, <<1>>, FALSE), JNum(FALSE, <<1>>, TRUE), JNum(FALSE, <<0>>, FALSE)}

---------------------------------------------------------------------------
(* Operations on HashOrHeight *)

(* HashOrHeight::from(hash) *)
FromBlockHash ==
    /\ \E h \in Hashes :
          /\ hoh' = Some(From_BlockHash(h))
          /\ made' = Some([by |-> "BlockHash", hash |-> h])
    /\ ret' = None
    /\ UNCHANGED <<wire, sent, dec, schemaVars, normVars, treeVars>>

(* HashOrHeight::from(height) *)
FromU32 ==
    /\ \E n \in Heights :
          /\ hoh' = Some(From_u32(n))
          /\ made' = Some([by |-> "u32", height |-> n])
    /\ ret' = None
    /\ UNCHANGED <<wire, sent, dec, schemaVars, normVars, treeVars>>

(* serde_json::to_value(&hoh) *)
Serialize ==
    /\ hoh.some
    /\ wire' = Some(serialize(hoh.v))
    /\ sent' = hoh
    /\ dec' = None
    /\ UNCHANGED <<hoh, made, ret, schemaVars, normVars, treeVars>>

(* a JSON value arrives from elsewhere *)
Receive ==
    /\ \E j \in ForeignWires : wire' = Some(j)
    /\ sent' = None
    /\ dec' = None
    /\ UNCHANGED <<hoh, made, ret, schemaVars, normVars, treeVars>>

(* serde_json::from_value::<HashOrHeight>(wire) *)
Deserialize ==
    /\ wire.some
    /\ dec' = Some(deserialize(wire.v))
    /\ hoh' = IF deserialize(wire.v).ok THEN Some(deserialize(wire.v).val) ELSE hoh
    /\ made' = IF deserialize(wire.v).ok THEN None ELSE made
    /\ ret' = IF deserialize(wire.v).ok THEN None ELSE ret
    /\ UNCHANGED <<wire, sent, schemaVars, normVars, treeVars>>

(* is_hash(), is_height(), as_hash() and as_height() on the value at hand *)
Inspect ==
    /\ hoh.some
    /\ ret' = Some([is_hash |-> is_hash(hoh.v), is_height |-> is_height(hoh.v),
                    as_hash |-> as_hash(hoh.v), as_height |-> as_height(hoh.v)])
    /\ UNCHANGED <<hoh, made, wire, sent, dec, schemaVars, normVars, treeVars>>

InitHoh == file = NoFile /\ SchemaIdle /\ NormIdle /\ HohIdle /\ TreeIdle

NextHoh == FromBlockHash \/ FromU32 \/ Serialize \/ Receive \/ Deserialize \/ Inspect

SpecHoh == InitHoh /\ [][NextHoh]_vars

---------------------------------------------------------------------------
(* Reading a document beside the definition loaded from it *)

(* the value a document gives a field, or `otherwise` when it gives none *)
Given(j, fields, name, otherwise) ==
    LET l == Lookup(j, fields, name) IN IF l.present THEN l.v.v ELSE otherwise

Has(j, fields, name) == Lookup(j, fields, name).present

(* the methods a document states, by key; none when it has no such mapping *)
DocRpcs(j) ==
    IF j.t \in {"object", "array"}
    THEN LET l == Lookup(j, ApiDefinitionFields, "rpcs")
         IN IF l.present /\ l.v.t = "object" THEN l.v.v ELSE <<>>
    ELSE <<>>

SameOutcome(a, b) ==
    /\ a.kind = b.kind
    /\ a.err = b.err
    /\ a.kind = "Ok" => a.def = b.def

Failed(a, e) == a.kind = "Err" /\ a.err = e /\ a.def = "none"

DocResults(m) == Given(m, BtcMethodFields, "results", <<>>)

DocInner(j) == Given(j, BtcResultFields, "inner", <<>>)

Loaded == origin = "from_file" /\ api.kind = "Ok"

(* every top-level result of a loaded definition beside its document *)
LoadedResults ==
    UNION {{<<DocResults(DocRpcs(file.value)[k])[i], api.def.rpcs[k].results[i]>> :
               i \in 1..Len(api.def.rpcs[k].results)} : k \in DOMAIN api.def.rpcs}

TestDocument == Rpcs([k \in {"getblock"} |-> Obj(MethodFields("getblock"))])

---------------------------------------------------------------------------
(* Claim C1 *)

RECURSIVE RequiredAtEveryDepth(_, _)
RequiredAtEveryDepth(j, r) ==
    /\ required(r) = ~r.optional
    /\ required(r) = ~Given(j, BtcResultFields, "optional", FALSE)
    /\ Len(r.inner) = Len(DocInner(j))
    /\ \A i \in 1..Len(r.inner) : RequiredAtEveryDepth(DocInner(j)[i], r.inner[i])

(* C1: in a definition obtained from from_file, every result node at every *)
(* depth reports required = ~optional, where optional is what the document *)
(* states for that node (false when it states nothing); the document of    *)
(* test_api_definition_from_file (outer optional true, inner optional      *)
(* false) loads with required false outside and true inside.               *)
C1_RequiredIsNotOptional ==
    /\ Loaded => \A p \in LoadedResults : RequiredAtEveryDepth(p[1], p[2])
    /\ (origin = "from_file" /\ file = Text(TestDocument)) =>
          /\ api.kind = "Ok"
          /\ ~required(api.def.rpcs["getblock"].results[1])
          /\ required(api.def.rpcs["getblock"].results[1].inner[1])

(* a loaded tree three deep whose optional flags alternate *)
C1_Witness ==
    /\ Loaded
    /\ \E p \in LoadedResults :
          /\ Len(p[2].inner) = 1 /\ Len(p[2].inner[1].inner) = 1
          /\ p[2].optional /\ ~required(p[2])
          /\ ~p[2].inner[1].optional /\ required(p[2].inner[1])
          /\ p[2].inner[1].inner[1].optional /\ ~required(p[2].inner[1].inner[1])

---------------------------------------------------------------------------
(* Claim C3 *)

IsStruct(j) == j.t \in {"object", "array"}

Lacks(j, fields, names) == \E f \in names : ~Has(j, fields, f)

(* the array the document gives for `name`, empty when it gives none *)
ArrayOf(j, fields, name) ==
    LET l == Lookup(j, fields, name)
    IN IF l.present /\ l.v.t = "array" THEN l.v.v ELSE <<>>

RECURSIVE ResultLacks(_)
ResultLacks(j) ==
    /\ IsStruct(j)
    /\ \/ Lacks(j, BtcResultFields, {"type", "description"})
       \/ \E i \in 1..Len(ArrayOf(j, BtcResultFields, "inner")) :
             ResultLacks(ArrayOf(j, BtcResultFields, "inner")[i])

ArgumentLacks(j) ==
    IsStruct(j) /\ Lacks(j, BtcArgumentFields, {"names", "description", "required", "type"})

MethodLacks(j) ==
    /\ IsStruct(j)
    /\ \/ Lacks(j, BtcMethodFields, {"name", "description", "arguments", "results"})
       \/ \E i \in 1..Len(ArrayOf(j, BtcMethodFields, "arguments")) :
             ArgumentLacks(ArrayOf(j, BtcMethodFields, "arguments")[i])
       \/ \E i \in 1..Len(ArrayOf(j, BtcMethodFields, "results")) :
             ResultLacks(ArrayOf(j, BtcMethodFields, "results")[i])

MissingRequired(j) ==
    /\ IsStruct(j)
    /\ \/ ~Has(j, ApiDefinitionFields, "rpcs")
       \/ LET l == Lookup(j, ApiDefinitionFields, "rpcs")
          IN l.v.t = "object" /\ \E k \in DOMAIN l.v.v : MethodLacks(l.v.v[k])

(* C3: from_file fails in exactly two ways and hands back no definition    *)
(* when it fails: a path that cannot be read as text (missing, not         *)
(* permitted, not UTF-8) gives SchemaError::Io; text that is not JSON, or  *)
(* JSON in which a field without a default is missing at any level, gives  *)
(* SchemaError::JsonParse; Ok comes only from readable, well-formed text   *)
(* with no such field missing.                                             *)
C3_TwoFailureKinds ==
    origin = "from_file" =>
        /\ api.kind \in {"Ok", "Err"}
        /\ api.kind = "Err" => Failed(api, "Io") \/ Failed(api, "JsonParse")
        /\ api.kind = "Ok" => api.err = "none"
        /\ file.state # "text" <=> Failed(api, "Io")
        /\ (file.state = "text" /\ (~file.syntax \/ MissingRequired(file.value)))
              => Failed(api, "JsonParse")
        /\ api.kind = "Ok" => file.state = "text" /\ file.syntax

(* JSON text whose nested result lacks a field with no default was refused *)
C3_Witness ==
    /\ origin = "from_file" /\ file.state = "text" /\ file.syntax
    /\ \E k \in DOMAIN DocRpcs(file.value) :
          LET m == DocRpcs(file.value)[k]
          IN /\ IsStruct(m) /\ ~Lacks(m, BtcMethodFields, {"name", "description", "arguments", "results"})
             /\ \E i \in 1..Len(ArrayOf(m, BtcMethodFields, "results")) :
                   LET r == ArrayOf(m, BtcMethodFields, "results")[i]
                   IN /\ IsStruct(r) /\ ~Lacks(r, BtcResultFields, {"type", "description"})
                      /\ ResultLacks(r)
    /\ Failed(api, "JsonParse")

---------------------------------------------------------------------------
(* Claim C8 *)

RECURSIVE StripResult(_)
StripResult(j) ==
    IF j.t # "object" THEN j
    ELSE JObj([k \in DOMAIN j.v \ {"required"} |->
                  IF k = "inner" /\ j.v[k].t = "array"
                  THEN JArr([i \in 1..Len(j.v[k].v) |-> StripResult(j.v[k].v[i])])
                  ELSE j.v[k]])

StripMethod(m) ==
    IF m.t # "object" THEN m
    ELSE JObj([k \in DOMAIN m.v |->
                  IF k = "results" /\ m.v[k].t = "array"
                  THEN JArr([i \in 1..Len(m.v[k].v) |-> StripResult(m.v[k].v[i])])
                  ELSE m.v[k]])

StripRequired(j) ==
    IF j.t # "object" THEN j
    ELSE JObj([k \in DOMAIN j.v |->
                  IF k = "rpcs" /\ j.v[k].t = "object"
                  THEN JObj([n \in DOMAIN j.v[k].v |-> StripMethod(j.v[k].v[n])])
                  ELSE j.v[k]])

RECURSIVE EveryNode(_)
EveryNode(r) ==
    /\ required(r) = ~r.optional
    /\ \A i \in 1..Len(r.inner) : EveryNode(r.inner[i])

(* C8: a `required` field on result objects of the document has no effect: *)
(* the document and the same document with every such field removed load   *)
(* to the same outcome (the same definition, or the same failure), and in  *)
(* the loaded definition every result node reports required = ~optional.   *)
C8_RequiredInInputIgnored ==
    (origin = "from_file" /\ file.state = "text" /\ file.syntax) =>
        /\ SameOutcome(api, from_file(Text(StripRequired(file.value))))
        /\ api.kind = "Ok" => \A p \in LoadedResults : EveryNode(p[2])

(* a document stating required: true on an optional node was loaded *)
C8_Witness ==
    /\ Loaded
    /\ StripRequired(file.value) # file.value
    /\ \E p \in LoadedResults :
          /\ p[1].t = "object" /\ "required" \in DOMAIN p[1].v
          /\ p[1].v["required"] = JBool(TRUE)
          /\ p[2].optional /\ ~required(p[2])
          /\ Len(p[2].inner) = 1
          /\ "required" \in DOMAIN DocInner(p[1])[1].v
          /\ DocInner(p[1])[1].v["required"] = JBool(FALSE)
          /\ required(p[2].inner[1])

---------------------------------------------------------------------------
(* Claim C9 *)

FieldOf == [optional |-> "optional", skip_type_check |-> "skip_type_check",
            key_name |-> "key_name", condition |-> "condition", inner |-> "inner"]

RECURSIVE DefaultsFilled(_, _)
DefaultsFilled(j, r) ==
    /\ \A f \in DOMAIN FieldOf :
          ~Has(j, BtcResultFields, f) => r[f] = BtcResult_default[f]
    /\ ~Has(j, BtcResultFields, "optional") => required(r)
    /\ \A i \in 1..Len(r.inner) : DefaultsFilled(DocInner(j)[i], r.inner[i])

OnlyTypeAndDescription == Obj([type |-> JStr("object"), description |-> JStr("main")])

MinimalResultFile ==
    Text(Rpcs([k \in {"getblock"} |->
        Obj([MethodFields("getblock") EXCEPT !.results = JArr(<<OnlyTypeAndDescription>>)])]))

MinimalMethodFile ==
    Text(Rpcs([k \in {"getblock"} |->
        Obj([MethodFields("getblock") EXCEPT !.examples = Absent, !.argument_names = Absent])]))

(* C9: fields the document leaves out take their defaults.  A result       *)
(* object with only `type` and `description` loads with optional false,    *)
(* skip_type_check false, key_name "", condition "" and inner empty, so    *)
(* required is true; a method object without `examples` and                *)
(* `argument_names` loads with examples "" and argument_names empty; the   *)
(* result defaults are those of BtcResult::default().                      *)
C9_DefaultsWhenAbsent ==
    /\ Loaded =>
          /\ \A p \in LoadedResults : DefaultsFilled(p[1], p[2])
          /\ \A k \in DOMAIN api.def.rpcs :
                LET m == DocRpcs(file.value)[k]
                IN /\ ~Has(m, BtcMethodFields, "examples") => api.def.rpcs[k].examples = ""
                   /\ ~Has(m, BtcMethodFields, "argument_names")
                         => api.def.rpcs[k].argument_names = <<>>
    /\ (origin = "from_file" /\ file = MinimalResultFile) =>
          /\ api.kind = "Ok"
          /\ api.def.rpcs["getblock"].results[1] =
                BtcResult_new("object", FALSE, "main", FALSE, "", "", <<>>)
          /\ required(api.def.rpcs["getblock"].results[1])
    /\ (origin = "from_file" /\ file = MinimalMethodFile) =>
          /\ api.kind = "Ok"
          /\ api.def.rpcs["getblock"].examples = ""
          /\ api.def.rpcs["getblock"].argument_names = <<>>

(* the result object with only `type` and `description` was loaded *)
C9_Witness ==
    /\ origin = "from_file" /\ file = MinimalResultFile /\ api.kind = "Ok"
    /\ api.def.rpcs["getblock"].results[1].inner = BtcResult_default.inner
    /\ api.def.rpcs["getblock"].results[1].key_name = BtcResult_default.key_name

---------------------------------------------------------------------------
(* Claim C7 *)

(* the keys the definition at hand must have: those of the document it was *)
(* loaded from, and those inserted by hand since                           *)
ExpectedKeys ==
    (IF origin = "from_file" THEN DOMAIN DocRpcs(file.value) ELSE {}) \cup inserted

SimpleFile == Text(Rpcs([k \in {"simple_method"} |-> SimpleMethod(k)]))

(* C7: get_method(name) returns the method bound to the key `name` when    *)
(* the mapping has that key and None otherwise, and leaves the mapping as  *)
(* it was: on a definition from new() every lookup is None; after loading  *)
(* a document with exactly one method the definition has exactly one       *)
(* entry, found under that exact key and under no other name.              *)
C7_GetMethod ==
    /\ lookup.called =>
          /\ lookup.ret.some <=> lookup.name \in ExpectedKeys
          /\ lookup.ret.some => lookup.ret.v = before[lookup.name]
          /\ (lookup.ret.some /\ origin = "from_file" /\ lookup.name \notin inserted) =>
                lookup.ret.v = DecodeMethod(DocRpcs(file.value)[lookup.name]).val
          /\ api.kind = "Ok" /\ api.def.rpcs = before
          /\ (origin = "new" /\ inserted = {}) => ~lookup.ret.some
          /\ (origin = "from_file" /\ inserted = {}
                 /\ Cardinality(DOMAIN DocRpcs(file.value)) = 1) =>
                /\ Cardinality(DOMAIN api.def.rpcs) = 1
                /\ lookup.ret.some <=> DOMAIN api.def.rpcs = {lookup.name}
    /\ (origin = "from_file" /\ file = SimpleFile) =>
          /\ api.kind = "Ok"
          /\ inserted = {} => DOMAIN api.def.rpcs = {"simple_method"}

(* the one method of the loaded document was found under its name *)
C7_Witness ==
    /\ origin = "from_file" /\ file = SimpleFile /\ inserted = {}
    /\ lookup.called /\ lookup.name = "simple_method"
    /\ lookup.ret.some /\ lookup.ret.v.name = "simple_method"
    /\ Cardinality(DOMAIN api.def.rpcs) = 1

---------------------------------------------------------------------------
(* Claim C4 *)

RoundTrips(x) ==
    LET j == serialize(x)
        d == deserialize(j)
    IN /\ j.t = (IF x.variant = "Hash" THEN "string" ELSE "number")
       /\ d.ok
       /\ d.val.variant = x.variant
       /\ x.variant = "Hash" => d.val.hash = x.hash
       /\ x.variant = "Height" => d.val.height = x.height

(* C4: HashOrHeight round-trips through its untagged encoding: decoding    *)
(* what serialize made of Hash(h) gives Hash(h) with the same bytes, and   *)
(* of Height(n) gives Height(n), for n up to u32::MAX; a Hash is encoded   *)
(* as a JSON string and a Height as a JSON number, so the variant is kept. *)
C4_RoundTrip ==
    /\ hoh.some => RoundTrips(hoh.v)
    /\ (sent.some /\ dec.some) =>
          /\ wire.v.t = (IF sent.v.variant = "Hash" THEN "string" ELSE "number")
          /\ dec.v.ok
          /\ dec.v.val.variant = sent.v.variant
          /\ sent.v.variant = "Hash" => dec.v.val.hash = sent.v.hash
          /\ sent.v.variant = "Height" => dec.v.val.height = sent.v.height

(* the hash of the tests went over the wire and came back *)
C4_Witness ==
    /\ sent.some /\ dec.some /\ dec.v.ok
    /\ sent.v.variant = "Hash" /\ sent.v.hash = GenesisHash
    /\ wire.v.t = "string" /\ wire.v.v[2 * HashLen] = "f" /\ wire.v.v[1] = "0"
    /\ dec.v.val.variant = "Hash" /\ dec.v.val.hash = GenesisHash

---------------------------------------------------------------------------
(* Claim C5 *)

(* C5: for every HashOrHeight value exactly one of is_hash() and           *)
(* is_height() is true; is_hash() is true exactly for the Hash variant and *)
(* is_height() exactly for the Height variant.                             *)
C5_ExactlyOnePredicate ==
    /\ hoh.some =>
          /\ is_hash(hoh.v) # is_height(hoh.v)
          /\ is_hash(hoh.v) <=> hoh.v.variant = "Hash"
          /\ is_height(hoh.v) <=> hoh.v.variant = "Height"
    /\ ret.some =>
          /\ ret.v.is_hash # ret.v.is_height
          /\ ret.v.is_hash <=> hoh.v.variant = "Hash"
          /\ ret.v.is_height <=> hoh.v.variant = "Height"

(* a decoded hash was asked both questions *)
C5_Witness ==
    /\ ret.some /\ hoh.some /\ ~made.some
    /\ hoh.v.variant = "Hash" /\ ret.v.is_hash /\ ~ret.v.is_height

---------------------------------------------------------------------------
(* Claim C6 *)

(* C6: as_hash() returns a value exactly when is_hash() is true, and the   *)
(* value is the stored hash; as_height() returns a value exactly when      *)
(* is_height() is true, and the value is the stored height; on the other   *)
(* variant each returns None.                                              *)
C6_Projections ==
    ret.some =>
        /\ ret.v.as_hash.some <=> ret.v.is_hash
        /\ ret.v.as_height.some <=> ret.v.is_height
        /\ hoh.v.variant = "Hash" =>
              /\ ret.v.as_hash.some /\ ret.v.as_hash.v = hoh.v.hash
              /\ ~ret.v.as_height.some
        /\ hoh.v.variant = "Height" =>
              /\ ret.v.as_height.some /\ ret.v.as_height.v = hoh.v.height
              /\ ~ret.v.as_hash.some

(* as_hash() was asked of the height u32::MAX *)
C6_Witness ==
    /\ ret.some /\ hoh.some
    /\ hoh.v.variant = "Height" /\ hoh.v.height = [hi |-> 65535, lo |-> 65535]
    /\ ~ret.v.as_hash.some /\ ret.v.as_height.some

---------------------------------------------------------------------------
(* Claim C10 *)

(* C10: the conversions always give the matching variant with the payload  *)
(* kept: from(h) is a Hash with as_hash() = h and is_height() false;       *)
(* from(n) is a Height with as_height() = n and is_hash() false.           *)
C10_Conversions ==
    made.some =>
        /\ hoh.some
        /\ made.v.by = "BlockHash" =>
              /\ hoh.v.variant = "Hash"
              /\ is_hash(hoh.v) /\ ~is_height(hoh.v)
              /\ as_hash(hoh.v).some /\ as_hash(hoh.v).v = made.v.hash
        /\ made.v.by = "u32" =>
              /\ hoh.v.variant = "Height"
              /\ is_height(hoh.v) /\ ~is_hash(hoh.v)
              /\ as_height(hoh.v).some /\ as_height(hoh.v).v = made.v.height

(* from(n) was applied to a height above 2^16 and the result inspected *)
C10_Witness ==
    /\ made.some /\ made.v.by = "u32" /\ made.v.height.hi > 0
    /\ ret.some /\ ret.v.is_height
    /\ ret.v.as_height.some /\ ret.v.as_height.v = made.v.height

---------------------------------------------------------------------------
(* The normalization pass over result trees that store `required`: the     *)
(* variant of BtcResult with a stored flag and post_process.  The pass     *)
(* sets required = ~optional on a node, then does the same in every child. *)

MaxPasses == 2

StoredResult(optional, stored, inner) ==
    [type_ |-> "string", optional |-> optional, description |-> "d",
     skip_type_check |-> FALSE, key_name |-> "", condition |-> "",
     inner |-> inner, required |-> stored]

StoredLeaves == {StoredResult(o, r, <<>>) : o \in BOOLEAN, r \in BOOLEAN}

RECURSIVE StoredChains(_)
StoredChains(d) ==
    IF d <= 1 THEN StoredLeaves
    ELSE StoredLeaves
         \cup {StoredResult(o, r, <<t>>) : o \in BOOLEAN, r \in BOOLEAN, t \in StoredChains(d - 1)}

StoredTrees ==
    StoredChains(MaxDepth)
    \cup {StoredResult(o, r, <<t, u>>) :
             o \in BOOLEAN, r \in BOOLEAN, t \in StoredLeaves, u \in StoredLeaves}

RECURSIVE post_process_toggle(_)
post_process_toggle(r) ==
    [r EXCEPT !.required = ~r.required,
              !.inner = [i \in 1..Len(r.inner) |-> post_process_toggle(r.inner[i])]]

RECURSIVE post_process(_)
post_process(r) ==
    [r EXCEPT !.required = ~r.optional,
              !.inner = [i \in 1..Len(r.inner) |-> post_process(r.inner[i])]]

(* one normalization pass over the tree at hand *)
PostProcess ==
    /\ passes < MaxPasses
    /\ norm' = post_process(norm)
    /\ once' = IF passes = 0 THEN post_process(norm) ELSE once
    /\ passes' = passes + 1
    /\ UNCHANGED <<fresh, schemaVars, hohVars, treeVars>>

InitNorm ==
    /\ norm \in StoredTrees /\ fresh = norm /\ once = norm /\ passes = 0
    /\ file = NoFile /\ SchemaIdle /\ HohIdle /\ TreeIdle

NextNorm == PostProcess

SpecNorm == InitNorm /\ [][NextNorm]_vars

---------------------------------------------------------------------------
(* Claim C2 *)

RECURSIVE SameShapeAndOptional(_, _)
SameShapeAndOptional(a, b) ==
    /\ a.optional = b.optional
    /\ Len(a.inner) = Len(b.inner)
    /\ \A i \in 1..Len(a.inner) : SameShapeAndOptional(a.inner[i], b.inner[i])

(* C2: normalization is idempotent: after a second pass the tree is the    *)
(* tree the first pass left (same shape, same optional and same required   *)
(* on every node), a further pass would change nothing, and no pass        *)
(* changes the shape of the tree or any node's optional.                   *)
C2_NormalizationIdempotent ==
    passes >= 1 =>
        /\ norm = once
        /\ post_process(norm) = norm
        /\ SameShapeAndOptional(fresh, norm)

(* a tree three deep with stale flags went through two passes *)
C2_Witness ==
    /\ passes = 2 /\ norm = once /\ fresh # norm
    /\ Len(norm.inner) = 1 /\ Len(norm.inner[1].inner) = 1
    /\ norm.optional /\ ~norm.inner[1].optional /\ norm.inner[1].inner[1].optional
    /\ fresh.required /\ ~fresh.inner[1].required

---------------------------------------------------------------------------
(* Result trees made without the loader: BtcResult::new, a struct literal  *)
(* (with or without ..Default::default()) and a direct decode of a result  *)
(* object.  given records the `optional` values handed to the              *)
(* constructions, parsed the JSON value handed to the decode.              *)

RECURSIVE Depth(_)
Depth(r) ==
    IF r.inner = <<>> THEN 1
    ELSE 1 + Depth(r.inner[CHOOSE i \in 1..Len(r.inner) :
                              \A k \in 1..Len(r.inner) : Depth(r.inner[k]) <= Depth(r.inner[i])])

(* a struct literal: the fields it states, the rest from ..Default::default() *)
Literal(stated) ==
    [f \in DOMAIN BtcResult_default |->
        IF f \in DOMAIN stated THEN stated[f] ELSE BtcResult_default[f]]

Constructed == built \in {"new", "literal", "default"}

(* the children handed to a construction: none, or the tree at hand *)
Kids(nest) == IF nest THEN <<tree>> ELSE <<>>

KidsGiven(nest) == IF nest THEN <<given>> ELSE <<>>

CanNest(nest) == nest => (Constructed /\ Depth(tree) < MaxDepth)

(* BtcResult::new(..), as in test_btc_result_new *)
NewResult ==
    /\ \E optional \in BOOLEAN, skip_type_check \in BOOLEAN, nest \in BOOLEAN :
          /\ CanNest(nest)
          /\ tree' = BtcResult_new("object", optional, "main description", skip_type_check,
                                   "main_key", "main_condition", Kids(nest))
          /\ given' = [optional |-> optional, inner |-> KidsGiven(nest)]
    /\ built' = "new"
    /\ parsed' = JNull
    /\ UNCHANGED <<schemaVars, normVars, hohVars>>

(* BtcResult { .. }, as in test_btc_result_required_getter: every field    *)
(* stated, or optional and inner stated and the rest defaulted             *)
LiteralResult ==
    /\ \E optional \in BOOLEAN, skip_type_check \in BOOLEAN, nest \in BOOLEAN :
          /\ CanNest(nest)
          /\ \/ tree' = Literal([type_ |-> "string", optional |-> optional,
                                 description |-> "test", skip_type_check |-> skip_type_check,
                                 key_name |-> "test_key", condition |-> "test_condition",
                                 inner |-> Kids(nest)])
             \/ /\ ~skip_type_check
                /\ tree' = Literal([optional |-> optional, inner |-> Kids(nest)])
          /\ given' = [optional |-> optional, inner |-> KidsGiven(nest)]
    /\ built' = "literal"
    /\ parsed' = JNull
    /\ UNCHANGED <<schemaVars, normVars, hohVars>>

(* BtcResult::default() *)
DefaultResult ==
    /\ tree' = BtcResult_default
    /\ given' = NoArgs
    /\ built' = "default"
    /\ parsed' = JNull
    /\ UNCHANGED <<schemaVars, normVars, hohVars>>

(* a result object decoded on its own (the derived Deserialize); the       *)
(* decode reads nothing of the tree at hand, so it is taken from the start *)
DecodeDirect ==
    /\ built = "none"
    /\ \E j \in ResultDocs :
          LET d == DecodeResult(j)
          IN /\ parsed' = j
             /\ tree' = IF d.ok THEN d.val ELSE BtcResult_default
             /\ built' = IF d.ok THEN "from_str" ELSE "error"
    /\ given' = NoArgs
    /\ UNCHANGED <<schemaVars, normVars, hohVars>>

InitTree == file = NoFile /\ SchemaIdle /\ NormIdle /\ HohIdle /\ TreeIdle

NextTree == NewResult \/ LiteralResult \/ DefaultResult \/ DecodeDirect

SpecTree == InitTree /\ [][NextTree]_vars

---------------------------------------------------------------------------
(* Claim C11 *)

RECURSIVE Nodes(_)
Nodes(r) == {r} \cup UNION {Nodes(r.inner[i]) : i \in 1..Len(r.inner)}

RECURSIVE RequiredAsGiven(_, _)
RequiredAsGiven(g, r) ==
    /\ required(r) = ~g.optional
    /\ Len(r.inner) = Len(g.inner)
    /\ \A i \in 1..Len(r.inner) : RequiredAsGiven(g.inner[i], r.inner[i])

Unnormalized == (Constructed \/ built = "from_str") /\ passes = 0

(* C11 as stated: a tree made without the loader, on which no              *)
(* normalization pass has run and which has a node with optional = true,   *)
(* has such a node whose required is not ~optional.                        *)
C11_StaleUntilNormalized ==
    (Unnormalized /\ \E n \in Nodes(tree) : n.optional) =>
        \E n \in Nodes(tree) : n.optional /\ required(n) # ~n.optional

(* the flags of test_btc_result_required_getter: optional outside, not inside *)
GetterTestArgs == [optional |-> TRUE, inner |-> <<[optional |-> FALSE, inner |-> <<>>]>>]

(* C11 amended: required is valid without any normalization pass: in a    *)
(* tree made by BtcResult::new, by a struct literal or by decoding a       *)
(* result object directly, every node at every depth reports required =    *)
(* ~optional, with optional as the construction or the JSON value gave it  *)
(* (false when not given); no node carries a stale required.               *)
C11_RequiredValidWithoutNormalization ==
    /\ (Unnormalized /\ Constructed) => RequiredAsGiven(given, tree)
    /\ (Unnormalized /\ built = "from_str") => RequiredAtEveryDepth(parsed, tree)
    /\ Unnormalized => \A n \in Nodes(tree) : required(n) = ~n.optional
    /\ (built = "literal" /\ given = GetterTestArgs) =>
          ~required(tree) /\ required(tree.inner[1])

(* the literal of test_btc_result_required_getter was built, no pass run *)
C11_Witness ==
    /\ built = "literal" /\ passes = 0 /\ given = GetterTestArgs
    /\ tree.optional /\ ~required(tree)
    /\ Len(tree.inner) = 1 /\ ~tree.inner[1].optional /\ required(tree.inner[1])
    /\ tree.key_name = "test_key"

============================================================================
